---- MODULE Spec2Model ----
(***************************************************************************)
(* WebVoiceRecorder (src/unnamed/part_000): capture / transcode / playback *)
(* orchestration of the React component, as a state machine.               *)
(*                                                                         *)
(* React state and refs keep the names of the source.  Every asynchronous  *)
(* operation (engine load, list fetch, getUserMedia, recorder events,      *)
(* conversion, play() promise, upload) is a request that stays in flight   *)
(* until its continuation runs as a step of its own.  A continuation uses  *)
(* the state values its closure captured when the handler was invoked,     *)
(* and the current values of the refs.                                     *)
(***************************************************************************)
EXTENDS Naturals, Sequences, FiniteSets

VARIABLES
  \* useState (part_000 lines 6-13, 23-25)
  isRecording, isPlaying, recordingTime, playbackTime, audioBlob, audioUrl,
  error, isConverting, selectedRecording, recordingsList, recordingFormats,
  \* useRef (lines 15-21)
  mediaRecorderRef, streamRef, chunksRef, timerRef, playbackTimerRef,
  ffmpegLoaded,
  \* the component and its effect (lines 117-133)
  mounted, effectUrl,
  \* the platform (MediaRecorder.isTypeSupported as the set of types it
  \* accepts) and what is in flight
  supported, typesSupported, loadsInFlight, fetchInFlight, acq, nReq, recorders, streams,
  conv, urlRevoked, leakedTimers, player, uploads,
  \* the calls made to props.onRecordingComplete (lines 248-250)
  completeCalls,
  \* the number of requests the user can still make
  ops

vars == << isRecording, isPlaying, recordingTime, playbackTime, audioBlob,
           audioUrl, error, isConverting, selectedRecording, recordingsList,
           recordingFormats, mediaRecorderRef, streamRef, chunksRef, timerRef,
           playbackTimerRef, ffmpegLoaded, mounted, effectUrl, supported, typesSupported,
           loadsInFlight, fetchInFlight, acq, nReq, recorders, streams, conv,
           urlRevoked, leakedTimers, player, uploads, completeCalls, ops >>

reactState == << isRecording, isPlaying, recordingTime, playbackTime,
                 audioBlob, audioUrl, error, isConverting, selectedRecording,
                 recordingsList, recordingFormats >>

(***************************************************************************)
(* Bounds of the model.                                                    *)
(***************************************************************************)
\* seconds counted by an elapsed-time display before it saturates
MaxTime == 1
\* chunks held by chunksRef
MaxChunks == 1
\* requests the user makes over a run
MaxOps == 3
\* user requests per run of the record, convert, submit and teardown runs
MaxPipelineOps == 5
\* user requests per run on a platform where the recorder can fail
MaxFaultOps == 2
\* user requests per run of the runs in which every conversion settles
MaxConvertOps == 3
\* getUserMedia requests made over a run
MaxSess == 2
\* uploads in flight at a time
MaxUploads == 1
\* user requests per run of the runs over every platform
MaxPlatformOps == 2
\* list fetches counted as in flight (further ones are absorbed)
MaxFetch == 1

Min(a, b) == IF a < b THEN a ELSE b

(***************************************************************************)
(* Values.                                                                 *)
(***************************************************************************)
\* audioBlob = null
NoBlob == [type |-> "none", sess |-> 0, chunks |-> << >>]
\* audioUrl = "" is 0; the k-th URL.createObjectURL result is k
NoUrl == 0
\* selectedRecording = null
NoRecording == 0
\* audioPlayerRef.current.src before any source was attached
NoSrc == [kind |-> "none", id |-> 0, fmt |-> "", host |-> ""]

\* The library the server holds: _id -> variants (url host per variant).
\* Entry 1 has both variants, entry 2 has no mp4 variant.
Library ==
  [e \in {1, 2} |->
     IF e = 1
       THEN [mp3 |-> [present |-> TRUE,  host |-> "localhost"],
             mp4 |-> [present |-> TRUE,  host |-> "10.0.2.2"]]
       ELSE [mp3 |-> [present |-> TRUE,  host |-> "10.0.2.2"],
             mp4 |-> [present |-> FALSE, host |-> ""]]]

Entries == DOMAIN Library

\* window.location.hostname of the runtime
Hostname == "localhost"

\* normalizeServerUrl: null for a missing url, else the url with the
\* emulator/host name replaced to match the runtime's hostname
NormalizeServerUrl(url) ==
  IF url.kind = "none" THEN NoSrc
  ELSE IF Hostname = "localhost"
         THEN [url EXCEPT !.host = IF @ = "10.0.2.2" THEN "localhost" ELSE @]
  ELSE IF Hostname = "10.0.2.2"
         THEN [url EXCEPT !.host = IF @ = "localhost" THEN "10.0.2.2" ELSE @]
  ELSE url

\* recording.mp3?.url / recording.mp4?.url
VariantUrl(e, fmt) ==
  LET v == IF fmt = "mp4" THEN Library[e].mp4 ELSE Library[e].mp3
  IN  IF v.present
        THEN [kind |-> "remote", id |-> e, fmt |-> fmt, host |-> v.host]
        ELSE NoSrc

\* recordingFormats[recording._id] || "mp3"
SelectedFormat(formats, e) == IF formats[e] = "" THEN "mp3" ELSE formats[e]

GetRecordingUrl(formats, e) ==
  LET selectedFormat == SelectedFormat(formats, e)
      url == IF selectedFormat = "mp3" THEN VariantUrl(e, "mp3")
             ELSE IF selectedFormat = "mp4" THEN VariantUrl(e, "mp4")
             ELSE VariantUrl(e, "mp3")
  IN  NormalizeServerUrl(url)

LocalSrc(u) ==
  IF u = NoUrl THEN NoSrc
  ELSE [kind |-> "local", id |-> u, fmt |-> "", host |-> ""]

\* the container types the platform's MediaRecorder supports
PlatformTypes == {"audio/webm", "audio/mp4"}

PossibleTypes ==
  << "audio/webm;codecs=opus", "audio/mp4;codecs=mp4a.40.2", "audio/webm",
     "audio/mp4", "audio/aac" >>

RECURSIVE FirstSupported(_, _)
FirstSupported(types, i) ==
  IF i > Len(PossibleTypes) THEN ""
  ELSE IF PossibleTypes[i] \in types THEN PossibleTypes[i]
  ELSE FirstSupported(types, i + 1)

\* getSupportedMimeType (lines 151-171): "" when nothing is supported
GetSupportedMimeType == FirstSupported(typesSupported, 1)

\* the type a recorder constructed with options reports as its mimeType:
\* the platform fills in the codec it uses, and picks its own container
\* when no type was asked for (line 201)
RecorderMimeType(requested) ==
  IF requested = "" THEN "audio/ogg;codecs=opus"
  ELSE IF requested = "audio/webm" THEN "audio/webm;codecs=opus"
  ELSE IF requested = "audio/mp4" THEN "audio/mp4;codecs=mp4a.40.2"
  ELSE requested

\* React drops a state update made after the component was unmounted
St(new, old) == IF mounted THEN new ELSE old

\* the effect keyed on [audioUrl] has a cleanup and a re-run outstanding
EffectPending == mounted /\ audioUrl # effectUrl

\* an event handler can run: the component is mounted and rendered
Rendered == mounted /\ ~EffectPending

\* React has run the effects of the last render: it does so before the next
\* task, so a continuation never finds them outstanding
Settled == ~EffectPending

(***************************************************************************)
(* Initial state: the component is mounted and its effect has run once,    *)
(* so one engine load and one list fetch are in flight (lines 117-119).    *)
(***************************************************************************)
\* the component after its first render and mount (lines 6-25, 117-120)
ConstructedOn(types) ==
  /\ isRecording = FALSE /\ isPlaying = FALSE
  /\ recordingTime = 0 /\ playbackTime = 0
  /\ audioBlob = NoBlob /\ audioUrl = NoUrl
  /\ error = "loading" /\ isConverting = FALSE
  /\ selectedRecording = NoRecording
  /\ recordingsList = {}
  /\ recordingFormats = [e \in Entries |-> ""]
  /\ mediaRecorderRef = 0 /\ streamRef = 0 /\ chunksRef = << >>
  /\ timerRef = "null" /\ playbackTimerRef = "null"
  /\ ffmpegLoaded = FALSE
  /\ mounted = TRUE /\ effectUrl = NoUrl
  /\ supported \in BOOLEAN /\ typesSupported = types
  /\ loadsInFlight = 1 /\ fetchInFlight = 1
  /\ acq = << >> /\ nReq = 0
  /\ recorders = << >> /\ streams = << >>
  /\ conv = {}
  /\ urlRevoked = << >>
  /\ leakedTimers = 0
  /\ player = [src |-> NoSrc, st |-> "idle", valid |-> FALSE, req |-> NoSrc,
               over |-> NoSrc, thenQueued |-> FALSE]
  /\ uploads = << >>
  /\ completeCalls = << >>

\* the component on the platform of the runs below
Constructed == ConstructedOn(PlatformTypes)

Init == Constructed /\ ops = MaxOps

(***************************************************************************)
(* Shared pieces of the handlers.                                          *)
(***************************************************************************)
\* URL.revokeObjectURL(u); the count saturates at "more than once"
Revoke(rv, u) ==
  IF u = NoUrl THEN rv ELSE [rv EXCEPT ![u] = IF @ = 0 THEN 1 ELSE 2]

\* streamRef.current.getTracks().forEach(track => track.stop()), guarded by
\* if (streamRef.current)
StopTracks(ss) ==
  IF streamRef = 0 THEN ss ELSE [ss EXCEPT ![streamRef] = FALSE]

\* a recorder whose stream lost its last live track is stopped by the
\* platform: it goes inactive and its stop event is queued
AfterTracksStopped(rs) ==
  [i \in DOMAIN rs |->
     IF i = streamRef /\ rs[i].st = "recording"
       THEN [rs[i] EXCEPT !.st = "stopping"]
       ELSE rs[i]]

\* if (ref.current) clearInterval(ref.current), the ref is not reset
ClearedNotReset(t) == IF t = "live" THEN "cleared" ELSE t

\* audioPlayerRef.current.pause() and currentTime = 0: output stops and an
\* element that had played to its end is rewound; a play() promise still
\* pending is rejected by a queued task
Paused(p) ==
  [p EXCEPT !.st = IF @ \in {"playing", "ended"} THEN "idle"
                   ELSE IF @ = "pending" THEN "aborting" ELSE @,
            !.over = NoSrc]

\* the cleanup of the effect keyed on [audioUrl] (lines 121-132)
Cleanup ==
  /\ timerRef' = ClearedNotReset(timerRef)
  /\ playbackTimerRef' = ClearedNotReset(playbackTimerRef)
  /\ streams' = StopTracks(streams)
  /\ recorders' = AfterTracksStopped(recorders)
  /\ urlRevoked' = Revoke(urlRevoked, effectUrl)

(***************************************************************************)
(* The effect: cleanup of the previous run, then loadFFmpeg() and          *)
(* fetchRecordings() again (lines 117-133), once audioUrl has changed.     *)
(***************************************************************************)
EffectRun ==
  /\ EffectPending
  /\ Cleanup
  /\ effectUrl' = audioUrl
  /\ error' = IF ffmpegLoaded THEN error ELSE "loading"
  /\ loadsInFlight' = IF ffmpegLoaded THEN loadsInFlight ELSE loadsInFlight + 1
  /\ fetchInFlight' = Min(fetchInFlight + 1, MaxFetch)
  /\ UNCHANGED << isRecording, isPlaying, recordingTime, playbackTime,
                  audioBlob, audioUrl, isConverting, selectedRecording,
                  recordingsList, recordingFormats, mediaRecorderRef,
                  streamRef, chunksRef, ffmpegLoaded, mounted, supported, typesSupported,
                  acq, nReq, conv, leakedTimers, player, uploads, completeCalls,
                  ops >>

\* unmount: the cleanup runs a last time and no handler runs any more
Unmount ==
  /\ Rendered
  /\ Cleanup
  /\ mounted' = FALSE
  /\ UNCHANGED << reactState, mediaRecorderRef, streamRef, chunksRef,
                  ffmpegLoaded, effectUrl, supported, typesSupported, loadsInFlight,
                  fetchInFlight, acq, nReq, conv, leakedTimers, player, uploads,
                  completeCalls >>
  /\ ops > 0 /\ ops' = ops - 1

(***************************************************************************)
(* loadFFmpeg (lines 28-44): the continuations of ffmpeg.load().           *)
(***************************************************************************)
LoadSucceed ==
  /\ Settled
  /\ loadsInFlight > 0
  /\ loadsInFlight' = loadsInFlight - 1
  /\ ffmpegLoaded' = TRUE
  /\ error' = St("", error)
  /\ UNCHANGED << isRecording, isPlaying, recordingTime, playbackTime,
                  audioBlob, audioUrl, isConverting, selectedRecording,
                  recordingsList, recordingFormats, mediaRecorderRef,
                  streamRef, chunksRef, timerRef, playbackTimerRef, mounted,
                  effectUrl, supported, typesSupported, fetchInFlight, acq, nReq, recorders,
                  streams, conv, urlRevoked, leakedTimers, player,
                  uploads, completeCalls,
                  ops >>

LoadFail ==
  /\ Settled
  /\ loadsInFlight > 0
  /\ ~ffmpegLoaded
  /\ loadsInFlight' = loadsInFlight - 1
  /\ error' = St("loadFailed", error)
  /\ UNCHANGED << isRecording, isPlaying, recordingTime, playbackTime,
                  audioBlob, audioUrl, isConverting, selectedRecording,
                  recordingsList, recordingFormats, mediaRecorderRef,
                  streamRef, chunksRef, timerRef, playbackTimerRef,
                  ffmpegLoaded, mounted, effectUrl, supported, typesSupported, fetchInFlight,
                  acq, nReq, recorders, streams, conv, urlRevoked,
                  leakedTimers, player, uploads, completeCalls,
                  ops >>

(***************************************************************************)
(* fetchRecordings (lines 47-60): the continuations of the list request.   *)
(***************************************************************************)
FetchOk ==
  /\ Settled
  /\ fetchInFlight > 0
  /\ fetchInFlight' = fetchInFlight - 1
  /\ recordingsList' = St(Entries, recordingsList)
  /\ UNCHANGED << isRecording, isPlaying, recordingTime, playbackTime,
                  audioBlob, audioUrl, error, isConverting, selectedRecording,
                  recordingFormats, mediaRecorderRef, streamRef, chunksRef,
                  timerRef, playbackTimerRef, ffmpegLoaded, mounted,
                  effectUrl, supported, typesSupported, loadsInFlight, acq, nReq, recorders,
                  streams, conv, urlRevoked, leakedTimers, player,
                  uploads, completeCalls,
                  ops >>

\* fetchRecordings with a failed request emptying the list
ListAfterFailedFetchEmptied == {}

\* the list after the else branch and the catch block (lines 54-59), which
\* never call setRecordingsList
ListAfterFailedFetch == recordingsList

\* a non-ok response or a network error: only logged
FetchFail ==
  /\ Settled
  /\ fetchInFlight > 0
  /\ fetchInFlight' = fetchInFlight - 1
  /\ recordingsList' = St(ListAfterFailedFetch, recordingsList)
  /\ UNCHANGED << isRecording, isPlaying, recordingTime, playbackTime,
                  audioBlob, audioUrl, error, isConverting, selectedRecording,
                  recordingFormats, mediaRecorderRef, streamRef, chunksRef,
                  timerRef, playbackTimerRef, ffmpegLoaded, mounted,
                  effectUrl, supported, typesSupported, loadsInFlight, acq, nReq, recorders,
                  streams, conv, urlRevoked, leakedTimers, player,
                  uploads, completeCalls,
                  ops >>

(***************************************************************************)
(* Recording (lines 136-148, 174-297).                                     *)
(***************************************************************************)
\* checkSupport: navigator.mediaDevices.getUserMedia and MediaRecorder exist
CheckSupport == supported

\* the record button is rendered enabled (line 516)
RecordButtonEnabled == error = "" /\ ~isConverting /\ ffmpegLoaded

RemoveAt(q, i) == SubSeq(q, 1, i - 1) \o SubSeq(q, i + 1, Len(q))

\* startRecording with the loaded check of line 176 taken out
EngineNotLoadedUnchecked == FALSE

\* !ffmpegRef.current.loaded (line 176)
EngineNotLoaded == ~ffmpegLoaded

\* startRecording up to its await: the two early returns, then
\* stopPlayback(), setSelectedRecording(null), setError("") and the
\* getUserMedia request, which captures the audioUrl of this render
StartRecordingBody ==
  IF ~CheckSupport THEN
    /\ error' = "unsupported"
    /\ UNCHANGED << isRecording, isPlaying, recordingTime, playbackTime,
                    audioBlob, audioUrl, isConverting, selectedRecording,
                    recordingsList, recordingFormats, mediaRecorderRef,
                    streamRef, chunksRef, timerRef, playbackTimerRef,
                    ffmpegLoaded, mounted, effectUrl, supported, typesSupported,
                    loadsInFlight, fetchInFlight, acq, nReq, recorders,
                    streams, conv, urlRevoked, leakedTimers, player,
                    uploads, completeCalls >>
  ELSE IF EngineNotLoaded THEN
    /\ error' = "notLoaded"
    /\ UNCHANGED << isRecording, isPlaying, recordingTime, playbackTime,
                    audioBlob, audioUrl, isConverting, selectedRecording,
                    recordingsList, recordingFormats, mediaRecorderRef,
                    streamRef, chunksRef, timerRef, playbackTimerRef,
                    ffmpegLoaded, mounted, effectUrl, supported, typesSupported,
                    loadsInFlight, fetchInFlight, acq, nReq, recorders,
                    streams, conv, urlRevoked, leakedTimers, player,
                    uploads, completeCalls >>
  ELSE
    \* stopPlayback()
    /\ nReq < MaxSess
    /\ player' = Paused(player)
    /\ isPlaying' = FALSE
    /\ playbackTime' = 0
    /\ playbackTimerRef' = "null"
    /\ selectedRecording' = NoRecording
    /\ error' = ""
    /\ acq' = Append(acq, audioUrl)
    /\ nReq' = nReq + 1
    /\ UNCHANGED << isRecording, recordingTime, audioBlob, audioUrl,
                    isConverting, recordingsList, recordingFormats,
                    mediaRecorderRef, streamRef, chunksRef, timerRef,
                    ffmpegLoaded, mounted, effectUrl, supported, typesSupported,
                    loadsInFlight, fetchInFlight, recorders, streams, conv,
                    urlRevoked, leakedTimers, uploads, completeCalls >>

\* a click on the record button while it reads "Start Recording"
StartRecording ==
  /\ Rendered /\ RecordButtonEnabled /\ ~isRecording
  /\ StartRecordingBody
  /\ ops > 0 /\ ops' = ops - 1

\* startRecording invoked as a function, whatever the button shows
StartRecordingCall ==
  /\ Rendered
  /\ StartRecordingBody
  /\ ops > 0 /\ ops' = ops - 1

\* getUserMedia resolved: the rest of the try block (lines 196-279)
GrantDevice(i) ==
  LET sid == Len(streams) + 1 IN
  /\ Settled
  /\ i \in 1..Len(acq)
  /\ acq' = RemoveAt(acq, i)
  /\ streams' = Append(streams, TRUE)
  /\ streamRef' = sid
  /\ chunksRef' = << >>
  /\ recorders' = Append(recorders,
        [st |-> "recording", url |-> acq[i],
         options |-> GetSupportedMimeType,
         mimeType |-> RecorderMimeType(GetSupportedMimeType), sent |-> 0])
  /\ mediaRecorderRef' = sid
  /\ isRecording' = St(TRUE, isRecording)
  /\ recordingTime' = St(0, recordingTime)
  /\ leakedTimers' = IF timerRef = "live" THEN leakedTimers + 1 ELSE leakedTimers
  /\ timerRef' = "live"
  /\ UNCHANGED << isPlaying, playbackTime, audioBlob, audioUrl, error,
                  isConverting, selectedRecording, recordingsList,
                  recordingFormats, playbackTimerRef, ffmpegLoaded, mounted,
                  effectUrl, supported, typesSupported, loadsInFlight, fetchInFlight, nReq,
                  conv, urlRevoked, player, uploads, completeCalls,
                  ops >>

\* getUserMedia resolved, but new MediaRecorder(...) (line 202) or start(1000)
\* (line 268) throws: the stream is stored, the catch block (lines 278-283)
\* reports the error, and nothing stops the stream.  started tells whether
\* the recorder was constructed, and so stored in the ref, before the throw.
GrantDeviceThrows(i, started) ==
  LET sid == Len(streams) + 1 IN
  /\ Settled
  /\ i \in 1..Len(acq)
  /\ acq' = RemoveAt(acq, i)
  /\ streams' = Append(streams, TRUE)
  /\ streamRef' = sid
  /\ chunksRef' = << >>
  /\ recorders' = Append(recorders,
        [st |-> IF started THEN "inactive" ELSE "none", url |-> acq[i],
         options |-> GetSupportedMimeType,
         mimeType |-> RecorderMimeType(GetSupportedMimeType), sent |-> 0])
  /\ mediaRecorderRef' = IF started THEN sid ELSE mediaRecorderRef
  /\ error' = St("startFailed", error)
  /\ UNCHANGED << isRecording, isPlaying, recordingTime, playbackTime,
                  audioBlob, audioUrl, isConverting, selectedRecording,
                  recordingsList, recordingFormats, timerRef,
                  playbackTimerRef, ffmpegLoaded, mounted, effectUrl,
                  supported, typesSupported, loadsInFlight, fetchInFlight, nReq, conv,
                  urlRevoked, leakedTimers, player, uploads, completeCalls,
                  ops >>

\* recorder s fails while capturing: the platform inactivates it, fires the
\* error event, handled by onerror (lines 263-266), and queues its stop event
RecorderError(s) ==
  /\ Settled
  /\ s \in DOMAIN recorders
  /\ recorders[s].st = "recording"
  /\ recorders' = [recorders EXCEPT ![s].st = "stopping"]
  /\ error' = St("recordingFailed", error)
  /\ UNCHANGED << isRecording, isPlaying, recordingTime, playbackTime,
                  audioBlob, audioUrl, isConverting, selectedRecording,
                  recordingsList, recordingFormats, mediaRecorderRef,
                  streamRef, chunksRef, timerRef, playbackTimerRef,
                  ffmpegLoaded, mounted, effectUrl, supported, typesSupported, loadsInFlight,
                  fetchInFlight, acq, nReq, streams, conv, urlRevoked,
                  leakedTimers, player, uploads, completeCalls,
                  ops >>

\* getUserMedia rejected: the catch block (lines 280-283)
DenyDevice(i) ==
  /\ Settled
  /\ i \in 1..Len(acq)
  /\ acq' = RemoveAt(acq, i)
  /\ error' = St("startFailed", error)
  /\ UNCHANGED << isRecording, isPlaying, recordingTime, playbackTime,
                  audioBlob, audioUrl, isConverting, selectedRecording,
                  recordingsList, recordingFormats, mediaRecorderRef,
                  streamRef, chunksRef, timerRef, playbackTimerRef,
                  ffmpegLoaded, mounted, effectUrl, supported, typesSupported, loadsInFlight,
                  fetchInFlight, nReq, recorders, streams, conv, urlRevoked,
                  leakedTimers, player, uploads, completeCalls,
                  ops >>

\* the k-th non-empty chunk that recorder s delivers (event.data)
Chunk(s, k) == << s, k >>

\* ondataavailable of recorder s with a non-empty chunk (lines 204-208);
\* the recorder counts the chunks it has delivered
DataAvailable(s) ==
  /\ Settled
  /\ s \in DOMAIN recorders
  /\ recorders[s].st = "recording"
  /\ Len(chunksRef) < MaxChunks
  /\ chunksRef' = Append(chunksRef, Chunk(s, recorders[s].sent + 1))
  /\ recorders' = [recorders EXCEPT ![s].sent = @ + 1]
  /\ UNCHANGED << reactState, mediaRecorderRef, streamRef, timerRef,
                  playbackTimerRef, ffmpegLoaded, mounted, effectUrl,
                  supported, typesSupported, loadsInFlight, fetchInFlight, acq, nReq,
                  streams, conv, urlRevoked, leakedTimers, player, uploads,
                  completeCalls,
                  ops >>

\* the interval started at line 272 fires
RecordingTick ==
  /\ Settled
  /\ mounted
  /\ timerRef = "live" \/ leakedTimers > 0
  /\ recordingTime < MaxTime
  /\ recordingTime' = recordingTime + 1
  /\ UNCHANGED << isRecording, isPlaying, playbackTime, audioBlob, audioUrl,
                  error, isConverting, selectedRecording, recordingsList,
                  recordingFormats, mediaRecorderRef, streamRef, chunksRef,
                  timerRef, playbackTimerRef, ffmpegLoaded, mounted,
                  effectUrl, supported, typesSupported, loadsInFlight, fetchInFlight, acq,
                  nReq, recorders, streams, conv, urlRevoked, leakedTimers,
                  player, uploads, completeCalls,
                  ops >>

\* stopRecording (lines 287-297), from the record button while it reads
\* "Stop Recording".  On a recorder that is already inactive,
\* MediaRecorder.stop() either throws InvalidStateError, which ends the
\* handler before any state is set, or returns without effect, depending on
\* the platform.
StopRecording ==
  /\ Rendered /\ RecordButtonEnabled /\ isRecording
  /\ mediaRecorderRef # 0
  /\ IF recorders[mediaRecorderRef].st = "recording" THEN
       /\ recorders' = [recorders EXCEPT ![mediaRecorderRef].st = "stopping"]
       /\ isRecording' = FALSE
       /\ timerRef' = "null"
     ELSE
       \/ UNCHANGED << recorders, isRecording, timerRef >>
       \/ /\ isRecording' = FALSE
          /\ timerRef' = "null"
          /\ UNCHANGED recorders
  /\ UNCHANGED << isPlaying, recordingTime, playbackTime, audioBlob, audioUrl,
                  error, isConverting, selectedRecording, recordingsList,
                  recordingFormats, mediaRecorderRef, streamRef, chunksRef,
                  playbackTimerRef, ffmpegLoaded, mounted, effectUrl,
                  supported, typesSupported, loadsInFlight, fetchInFlight, acq, nReq, streams,
                  conv, urlRevoked, leakedTimers, player, uploads,
                  completeCalls >>
  /\ ops > 0 /\ ops' = ops - 1

\* onstop typing the raw audio with the type it asked the recorder for
InitialBlobTypeRequested == recorders[mediaRecorderRef].options

\* type: mediaRecorderRef.current.mimeType (lines 211-213)
InitialBlobType == recorders[mediaRecorderRef].mimeType

\* the stop event of recorder s: its last chunk, if not empty, is pushed,
\* then onstop runs up to its first await (lines 210-227)
OnStop(s, last) ==
  LET chunks == IF last THEN Append(chunksRef, Chunk(s, recorders[s].sent + 1))
                ELSE chunksRef
      initialBlob == [type |-> InitialBlobType,
                      sess |-> s, chunks |-> chunks]
      stopped == [recorders EXCEPT ![s].st = "inactive",
                                   ![s].sent = IF last THEN @ + 1 ELSE @]
  IN
  /\ Settled
  /\ s \in DOMAIN recorders
  /\ recorders[s].st = "stopping"
  /\ last => Len(chunksRef) < MaxChunks
  /\ chunksRef' = chunks
  /\ audioBlob' = St(initialBlob, audioBlob)
  /\ streams' = StopTracks(streams)
  /\ recorders' = AfterTracksStopped(stopped)
  /\ isConverting' = St(TRUE, isConverting)
  /\ error' = St("converting", error)
  /\ conv' = conv \cup {[sess |-> s, url |-> recorders[s].url,
                         input |-> initialBlob]}
  /\ UNCHANGED << isRecording, isPlaying, recordingTime, playbackTime,
                  audioUrl, selectedRecording, recordingsList,
                  recordingFormats, mediaRecorderRef, streamRef, timerRef,
                  playbackTimerRef, ffmpegLoaded, mounted, effectUrl,
                  supported, typesSupported, loadsInFlight, fetchInFlight, acq, nReq,
                  urlRevoked, leakedTimers, player, uploads, completeCalls,
                  ops >>

\* writeFile, exec and readFile all resolved: lines 241-251 and 259
ConvertSucceed(c) ==
  LET url == Len(urlRevoked) + 1
      m4aBlob == [type |-> "audio/mp4", sess |-> c.sess,
                  chunks |-> c.input.chunks]
  IN
  /\ Settled
  /\ c \in conv
  /\ conv' = conv \ {c}
  /\ urlRevoked' = Append(urlRevoked, 0)
  /\ audioBlob' = St(m4aBlob, audioBlob)
  /\ audioUrl' = St(url, audioUrl)
  /\ error' = St("", error)
  /\ isConverting' = St(FALSE, isConverting)
  /\ completeCalls' = Append(completeCalls,
        [sess |-> c.sess, blob |-> m4aBlob, url |-> url])
  /\ UNCHANGED << isRecording, isPlaying, recordingTime, playbackTime,
                  selectedRecording, recordingsList, recordingFormats,
                  mediaRecorderRef, streamRef, chunksRef, timerRef,
                  playbackTimerRef, ffmpegLoaded, mounted, effectUrl,
                  supported, typesSupported, loadsInFlight, fetchInFlight, acq, nReq,
                  recorders, streams, leakedTimers, player,
                  uploads,
                  ops >>

\* onstop without its finally block: a failed conversion leaves the flag set
ConvertingAfterFailureKept == isConverting

\* setIsConverting(false) in the finally block (lines 258-260), reached
\* from the catch block
ConvertingAfterFailure == FALSE

\* onstop handing the raw capture to the callback when the conversion fails
CallsAfterFailedConversionRaw(c) ==
  Append(completeCalls, [sess |-> c.sess, blob |-> c.input, url |-> NoUrl])

\* the catch block (lines 252-258) does not call onRecordingComplete
CallsAfterFailedConversion(c) == completeCalls

\* one of the three engine calls rejected: lines 252-259; audioUrl in the
\* catch block is the value startRecording's closure captured
ConvertFail(c) ==
  /\ Settled
  /\ c \in conv
  /\ conv' = conv \ {c}
  /\ error' = St("convertFailed", error)
  /\ urlRevoked' = Revoke(urlRevoked, c.url)
  /\ audioUrl' = St(NoUrl, audioUrl)
  /\ audioBlob' = St(NoBlob, audioBlob)
  /\ isConverting' = St(ConvertingAfterFailure, isConverting)
  /\ completeCalls' = CallsAfterFailedConversion(c)
  /\ UNCHANGED << isRecording, isPlaying, recordingTime, playbackTime,
                  selectedRecording, recordingsList, recordingFormats,
                  mediaRecorderRef, streamRef, chunksRef, timerRef,
                  playbackTimerRef, ffmpegLoaded, mounted, effectUrl,
                  supported, typesSupported, loadsInFlight, fetchInFlight, acq, nReq,
                  recorders, streams, leakedTimers, player,
                  uploads,
                  ops >>

(***************************************************************************)
(* Playback (lines 300-372, 443-464).                                      *)
(***************************************************************************)
\* stopPlayback (lines 339-352)
StopPlaybackBody ==
  /\ player' = Paused(player)
  /\ isPlaying' = FALSE
  /\ playbackTime' = 0
  /\ selectedRecording' = NoRecording
  /\ playbackTimerRef' = "null"
  /\ UNCHANGED error

\* startPlayback with the stop of lines 306-308 taken out
StopFirstSkipped == FALSE

\* if (isPlaying) stopPlayback() (lines 306-308)
StopFirst == isPlaying

\* startPlayback (lines 300-336), run in the render it was created in:
\* selectedRecording, isPlaying, audioUrl and recordingFormats are that
\* render's values.  selAfter is the selection the caller has set in the
\* same batch.  The player record also remembers, for the properties below,
\* the source the caller asked for (req) and the source that was audible
\* when it asked (over).  Setting src and load() reject a play() promise that is
\* still pending, whose catch block then runs before anything else.
StartPlaybackBody(selAfter, requested) ==
  LET urlToPlay == IF selectedRecording # NoRecording
                     THEN GetRecordingUrl(recordingFormats, selectedRecording)
                     ELSE LocalSrc(audioUrl)
      stop == StopFirst
      paused == IF stop THEN Paused(player) ELSE player
      aborted == paused.st \in {"pending", "aborting"}
      timer1 == IF stop THEN "null" ELSE playbackTimerRef
  IN
  IF urlToPlay.kind # "none" THEN
    /\ isPlaying' = IF stop \/ aborted THEN FALSE ELSE isPlaying
    /\ playbackTime' = IF stop THEN 0 ELSE playbackTime
    /\ selectedRecording' = IF stop THEN NoRecording ELSE selAfter
    /\ playbackTimerRef' = IF aborted THEN ClearedNotReset(timer1) ELSE timer1
    /\ error' = IF aborted THEN "playFailed" ELSE error
    /\ player' = [src |-> urlToPlay, st |-> "pending",
                  valid |-> (urlToPlay.kind = "local"
                                => urlRevoked[urlToPlay.id] = 0),
                  req |-> requested,
                  over |-> IF player.st = "playing" THEN player.src
                           ELSE NoSrc,
                  thenQueued |-> player.thenQueued]
  ELSE
    /\ selectedRecording' = selAfter
    /\ UNCHANGED << isPlaying, playbackTime, playbackTimerRef, error, player >>

\* the local play button (lines 549-559)
LocalPlayClick ==
  /\ Rendered /\ audioUrl # NoUrl /\ ~isConverting
  /\ IF isPlaying /\ selectedRecording = NoRecording
       THEN StopPlaybackBody
       ELSE StartPlaybackBody(selectedRecording, LocalSrc(audioUrl))
  /\ UNCHANGED << isRecording, recordingTime, audioBlob, audioUrl,
                  isConverting, recordingsList, recordingFormats,
                  mediaRecorderRef, streamRef, chunksRef, timerRef,
                  ffmpegLoaded, mounted, effectUrl, supported, typesSupported, loadsInFlight,
                  fetchInFlight, acq, nReq, recorders, streams, conv,
                  urlRevoked, leakedTimers, uploads, completeCalls >>
  /\ ops > 0 /\ ops' = ops - 1

\* isAvailable = !!getRecordingUrl(recording) (line 614)
IsAvailable(formats, e) == GetRecordingUrl(formats, e).kind # "none"

\* playRecording (lines 456-464) from the play button of entry e, which is
\* disabled={isConverting || !isAvailable} (line 675)
PlayRecording(e) ==
  /\ Rendered /\ e \in recordingsList /\ ~isConverting
  /\ IsAvailable(recordingFormats, e)
  /\ IF selectedRecording = e /\ isPlaying
       THEN StopPlaybackBody
       ELSE StartPlaybackBody(e, GetRecordingUrl(recordingFormats, e))
  /\ UNCHANGED << isRecording, recordingTime, audioBlob, audioUrl,
                  isConverting, recordingsList, recordingFormats,
                  mediaRecorderRef, streamRef, chunksRef, timerRef,
                  ffmpegLoaded, mounted, effectUrl, supported, typesSupported, loadsInFlight,
                  fetchInFlight, acq, nReq, recorders, streams, conv,
                  urlRevoked, leakedTimers, uploads, completeCalls >>
  /\ ops > 0 /\ ops' = ops - 1

\* play() resolved: the then block (lines 317-326)
PlayResolve ==
  /\ Settled
  /\ player.st = "pending" /\ player.valid
  /\ player' = [player EXCEPT !.st = "playing"]
  /\ isPlaying' = St(TRUE, isPlaying)
  /\ playbackTime' = St(0, playbackTime)
  /\ playbackTimerRef' = "live"
  /\ UNCHANGED << isRecording, recordingTime, audioBlob, audioUrl, error,
                  isConverting, selectedRecording, recordingsList,
                  recordingFormats, mediaRecorderRef, streamRef, chunksRef,
                  timerRef, ffmpegLoaded, mounted, effectUrl, supported, typesSupported,
                  loadsInFlight, fetchInFlight, acq, nReq, recorders, streams,
                  conv, urlRevoked, leakedTimers, uploads, completeCalls,
                  ops >>

\* play() rejected (the source failed to load or decode, or pause() cut the
\* request short): the catch block (lines 327-332)
PlayReject ==
  /\ Settled
  /\ player.st \in {"pending", "aborting"}
  /\ player' = [player EXCEPT !.st = "idle", !.over = NoSrc]
  /\ error' = St("playFailed", error)
  /\ isPlaying' = St(FALSE, isPlaying)
  /\ playbackTimerRef' = ClearedNotReset(playbackTimerRef)
  /\ UNCHANGED << isRecording, recordingTime, playbackTime, audioBlob,
                  audioUrl, isConverting, selectedRecording, recordingsList,
                  recordingFormats, mediaRecorderRef, streamRef, chunksRef,
                  timerRef, ffmpegLoaded, mounted, effectUrl, supported, typesSupported,
                  loadsInFlight, fetchInFlight, acq, nReq, recorders, streams,
                  conv, urlRevoked, leakedTimers, uploads, completeCalls,
                  ops >>

\* handleAudioEnded without its setSelectedRecording(null) of line 371
HandleAudioEndedKeepsSelection ==
  /\ Rendered /\ player.st = "playing"
  /\ player' = [player EXCEPT !.st = "ended", !.over = NoSrc]
  /\ isPlaying' = FALSE
  /\ playbackTime' = 0
  /\ playbackTimerRef' = "null"
  /\ UNCHANGED << isRecording, recordingTime, audioBlob, audioUrl, error,
                  isConverting, selectedRecording, recordingsList,
                  recordingFormats, mediaRecorderRef, streamRef, chunksRef,
                  timerRef, ffmpegLoaded, mounted, effectUrl, supported, typesSupported,
                  loadsInFlight, fetchInFlight, acq, nReq, recorders, streams,
                  conv, urlRevoked, leakedTimers, uploads, completeCalls,
                  ops >>

\* the ended event of the audio element, which has played its source to the
\* end: handleAudioEnded (lines 364-372)
HandleAudioEnded ==
  /\ Rendered /\ player.st = "playing"
  /\ player' = [player EXCEPT !.st = "ended", !.over = NoSrc]
  /\ isPlaying' = FALSE
  /\ playbackTime' = 0
  /\ playbackTimerRef' = "null"
  /\ selectedRecording' = NoRecording
  /\ UNCHANGED << isRecording, recordingTime, audioBlob, audioUrl, error,
                  isConverting, recordingsList, recordingFormats,
                  mediaRecorderRef, streamRef, chunksRef, timerRef,
                  ffmpegLoaded, mounted, effectUrl, supported, typesSupported, loadsInFlight,
                  fetchInFlight, acq, nReq, recorders, streams, conv,
                  urlRevoked, leakedTimers, uploads, completeCalls,
                  ops >>

\* the interval started at line 321 fires and reads
\* Math.floor(audioPlayerRef.current.currentTime), which grows while the
\* element plays and is 0 after pause() with currentTime = 0 or load()
PlaybackTick ==
  LET currentTime == IF player.st = "playing"
                       THEN Min(playbackTime + 1, MaxTime) ELSE 0
  IN
  /\ Settled
  /\ mounted /\ playbackTimerRef = "live"
  /\ playbackTime # currentTime
  /\ playbackTime' = currentTime
  /\ UNCHANGED << isRecording, isPlaying, recordingTime, audioBlob, audioUrl,
                  error, isConverting, selectedRecording, recordingsList,
                  recordingFormats, mediaRecorderRef, streamRef, chunksRef,
                  timerRef, playbackTimerRef, ffmpegLoaded, mounted,
                  effectUrl, supported, typesSupported, loadsInFlight, fetchInFlight, acq,
                  nReq, recorders, streams, conv, urlRevoked, leakedTimers,
                  player, uploads, completeCalls,
                  ops >>

\* handleFormatChange (lines 443-453) from the select of entry e
HandleFormatChange(e, newFormat) ==
  /\ Rendered /\ e \in recordingsList
  /\ newFormat # SelectedFormat(recordingFormats, e)
  /\ recordingFormats' = [recordingFormats EXCEPT ![e] = newFormat]
  /\ IF selectedRecording = e /\ isPlaying
       THEN StopPlaybackBody
       ELSE UNCHANGED << player, isPlaying, playbackTime,
                         selectedRecording, playbackTimerRef, error >>
  /\ UNCHANGED << isRecording, recordingTime, audioBlob, audioUrl,
                  isConverting, recordingsList, mediaRecorderRef, streamRef,
                  chunksRef, timerRef, ffmpegLoaded, mounted, effectUrl,
                  supported, typesSupported, loadsInFlight, fetchInFlight, acq, nReq,
                  recorders, streams, conv, urlRevoked, leakedTimers,
                  uploads, completeCalls >>
  /\ ops > 0 /\ ops' = ops - 1

(***************************************************************************)
(* Submission (lines 399-440).                                             *)
(***************************************************************************)
\* handleSubmit with the check of line 400 taken out
NoArtifactUnchecked == FALSE

\* !audioBlob (line 400)
NoArtifact == audioBlob = NoBlob

\* handleSubmit up to its await; the request captures audioBlob and audioUrl
HandleSubmitBody ==
  IF NoArtifact THEN
    /\ error' = "noAudio"
    /\ UNCHANGED uploads
  ELSE
    /\ Len(uploads) < MaxUploads
    /\ error' = ""
    /\ uploads' = Append(uploads, [blob |-> audioBlob, url |-> audioUrl])

\* the submit button (lines 531, 576-587)
HandleSubmit ==
  /\ Rendered /\ audioUrl # NoUrl /\ ~isConverting /\ audioBlob # NoBlob
  /\ HandleSubmitBody
  /\ UNCHANGED << completeCalls, isRecording, isPlaying, recordingTime, playbackTime,
                  audioBlob, audioUrl, isConverting, selectedRecording,
                  recordingsList, recordingFormats, mediaRecorderRef,
                  streamRef, chunksRef, timerRef, playbackTimerRef,
                  ffmpegLoaded, mounted, effectUrl, supported, typesSupported, loadsInFlight,
                  fetchInFlight, acq, nReq, recorders, streams, conv,
                  urlRevoked, leakedTimers, player >>
  /\ ops > 0 /\ ops' = ops - 1

\* response.ok: lines 421-430, with the audioUrl the handler captured
UploadOk(i) ==
  /\ Settled
  /\ i \in 1..Len(uploads)
  /\ uploads' = RemoveAt(uploads, i)
  /\ error' = St("", error)
  /\ fetchInFlight' = Min(fetchInFlight + 1, MaxFetch)
  /\ audioBlob' = St(NoBlob, audioBlob)
  /\ urlRevoked' = Revoke(urlRevoked, uploads[i].url)
  /\ audioUrl' = IF uploads[i].url # NoUrl THEN St(NoUrl, audioUrl)
                 ELSE audioUrl
  /\ UNCHANGED << completeCalls, isRecording, isPlaying, recordingTime, playbackTime,
                  isConverting, selectedRecording, recordingsList,
                  recordingFormats, mediaRecorderRef, streamRef, chunksRef,
                  timerRef, playbackTimerRef, ffmpegLoaded, mounted,
                  effectUrl, supported, typesSupported, loadsInFlight, acq, nReq, recorders,
                  streams, conv, leakedTimers, player,
                  ops >>

\* handleSubmit with a failed upload discarding the blob as a successful
\* one does
BlobAfterFailedUploadCleared == NoBlob

\* the blob after the else branch and the catch block (lines 431-439),
\* which never call setAudioBlob
BlobAfterFailedUpload == audioBlob

\* a non-ok response or a network error: lines 431-439
UploadFail(i) ==
  /\ Settled
  /\ i \in 1..Len(uploads)
  /\ uploads' = RemoveAt(uploads, i)
  /\ error' = St("uploadFailed", error)
  /\ audioBlob' = St(BlobAfterFailedUpload, audioBlob)
  /\ UNCHANGED << completeCalls, isRecording, isPlaying, recordingTime, playbackTime,
                  audioUrl, isConverting, selectedRecording,
                  recordingsList, recordingFormats, mediaRecorderRef,
                  streamRef, chunksRef, timerRef, playbackTimerRef,
                  ffmpegLoaded, mounted, effectUrl, supported, typesSupported, loadsInFlight,
                  fetchInFlight, acq, nReq, recorders, streams, conv,
                  urlRevoked, leakedTimers, player,
                  ops >>

(***************************************************************************)
(* The component driven through its rendered controls.                     *)
(***************************************************************************)
Next ==
  \/ EffectRun
  \/ Unmount
  \/ LoadSucceed
  \/ LoadFail
  \/ FetchOk
  \/ FetchFail
  \/ StartRecording
  \/ \E i \in DOMAIN acq : GrantDevice(i)
  \/ \E i \in DOMAIN acq : DenyDevice(i)
  \/ \E s \in DOMAIN recorders : DataAvailable(s)
  \/ RecordingTick
  \/ StopRecording
  \/ \E s \in DOMAIN recorders, last \in BOOLEAN : OnStop(s, last)
  \/ \E c \in conv : ConvertSucceed(c)
  \/ \E c \in conv : ConvertFail(c)
  \/ LocalPlayClick
  \/ \E e \in Entries : PlayRecording(e)
  \/ PlayResolve
  \/ PlayReject
  \/ HandleAudioEnded
  \/ PlaybackTick
  \/ \E e \in Entries, f \in {"mp3", "mp4"} : HandleFormatChange(e, f)
  \/ HandleSubmit
  \/ \E i \in DOMAIN uploads : UploadOk(i)
  \/ \E i \in DOMAIN uploads : UploadFail(i)

Spec == Init /\ [][Next]_vars

\* the same component with startRecording also invoked directly, not only
\* through the record button
NextCall == Next \/ StartRecordingCall

SpecCall == Init /\ [][NextCall]_vars

\* loadFFmpeg (lines 28-44) invoked directly, up to its await: the load is
\* requested unless the engine reports that it is loaded
LoadFFmpegCall ==
  /\ mounted
  /\ IF ~ffmpegLoaded
       THEN /\ error' = "loading"
            /\ loadsInFlight' = loadsInFlight + 1
       ELSE UNCHANGED << error, loadsInFlight >>
  /\ UNCHANGED << isRecording, isPlaying, recordingTime, playbackTime,
                  audioBlob, audioUrl, isConverting, selectedRecording,
                  recordingsList, recordingFormats, mediaRecorderRef,
                  streamRef, chunksRef, timerRef, playbackTimerRef,
                  ffmpegLoaded, mounted, effectUrl, supported, typesSupported, fetchInFlight,
                  acq, nReq, recorders, streams, conv, urlRevoked,
                  leakedTimers, player, uploads, completeCalls >>
  /\ ops > 0 /\ ops' = ops - 1

NextLoad == Next \/ LoadFFmpegCall

SpecLoad == Init /\ [][NextLoad]_vars

\* handleSubmit (lines 399-440) invoked directly, whatever the page renders
HandleSubmitCall ==
  /\ Rendered
  /\ HandleSubmitBody
  /\ UNCHANGED << completeCalls, isRecording, isPlaying, recordingTime,
                  playbackTime, audioBlob, audioUrl, isConverting,
                  selectedRecording, recordingsList, recordingFormats,
                  mediaRecorderRef, streamRef, chunksRef, timerRef,
                  playbackTimerRef, ffmpegLoaded, mounted, effectUrl,
                  supported, typesSupported, loadsInFlight, fetchInFlight, acq, nReq,
                  recorders, streams, conv, urlRevoked, leakedTimers, player >>
  /\ ops > 0 /\ ops' = ops - 1

NextSubmit == Next \/ HandleSubmitCall

SpecSubmit == Init /\ [][NextSubmit]_vars

\* The platform delivers the outcome of play() in two steps: when playback
\* starts it takes the pending promise and queues a task that resolves it,
\* and the then block (lines 317-326) runs in that later task.  A pause()
\* that arrives in between finds no pending promise to reject.
\* playback of the attached source starts and the resolution is queued
PlayStarted ==
  /\ Settled
  /\ player.st = "pending" /\ player.valid /\ ~player.thenQueued
  /\ player' = [player EXCEPT !.st = "playing", !.thenQueued = TRUE]
  /\ UNCHANGED << reactState, mediaRecorderRef, streamRef, chunksRef,
                  timerRef, playbackTimerRef, ffmpegLoaded, mounted,
                  effectUrl, supported, typesSupported, loadsInFlight, fetchInFlight, acq,
                  nReq, recorders, streams, conv, urlRevoked, leakedTimers,
                  uploads, completeCalls, ops >>

\* the queued resolution runs the then block (lines 317-326)
PlayThen ==
  /\ Settled
  /\ player.thenQueued
  /\ player' = [player EXCEPT !.thenQueued = FALSE]
  /\ isPlaying' = St(TRUE, isPlaying)
  /\ playbackTime' = St(0, playbackTime)
  /\ playbackTimerRef' = "live"
  /\ UNCHANGED << isRecording, recordingTime, audioBlob, audioUrl, error,
                  isConverting, selectedRecording, recordingsList,
                  recordingFormats, mediaRecorderRef, streamRef, chunksRef,
                  timerRef, ffmpegLoaded, mounted, effectUrl, supported, typesSupported,
                  loadsInFlight, fetchInFlight, acq, nReq, recorders, streams,
                  conv, urlRevoked, leakedTimers, uploads, completeCalls,
                  ops >>

NextPlayTask == Next \/ PlayStarted \/ PlayThen

SpecPlayTask == Init /\ [][NextPlayTask]_vars

\* the same component on a platform where the recorder can fail: its
\* construction or start() throws, or it reports an error while capturing
InitFaults == Constructed /\ ops = MaxFaultOps

NextFaults ==
  \/ Next
  \/ \E i \in DOMAIN acq, started \in BOOLEAN : GrantDeviceThrows(i, started)
  \/ \E s \in DOMAIN recorders : RecorderError(s)

SpecFaults == InitFaults /\ [][NextFaults]_vars

\* stopPlayback (lines 339-352) invoked directly
StopPlaybackCall ==
  /\ Rendered
  /\ StopPlaybackBody
  /\ UNCHANGED << isRecording, recordingTime, audioBlob, audioUrl,
                  isConverting, recordingsList, recordingFormats,
                  mediaRecorderRef, streamRef, chunksRef, timerRef,
                  ffmpegLoaded, mounted, effectUrl, supported, typesSupported, loadsInFlight,
                  fetchInFlight, acq, nReq, recorders, streams, conv,
                  urlRevoked, leakedTimers, uploads, completeCalls >>
  /\ ops > 0 /\ ops' = ops - 1

\* the same component with stopPlayback also invoked directly
NextStop == Next \/ StopPlaybackCall

SpecStop == Init /\ [][NextStop]_vars

\* the component used only to record, convert, play the local recording,
\* submit and unmount, with the library never fetched successfully
InitPipeline == Constructed /\ ops = MaxPipelineOps

NextPipeline ==
  \/ EffectRun
  \/ Unmount
  \/ LoadSucceed
  \/ LoadFail
  \/ FetchFail
  \/ StartRecording
  \/ \E i \in DOMAIN acq : GrantDevice(i)
  \/ \E i \in DOMAIN acq : DenyDevice(i)
  \/ \E s \in DOMAIN recorders : DataAvailable(s)
  \/ RecordingTick
  \/ StopRecording
  \/ \E s \in DOMAIN recorders, last \in BOOLEAN : OnStop(s, last)
  \/ \E c \in conv : ConvertSucceed(c)
  \/ \E c \in conv : ConvertFail(c)
  \/ LocalPlayClick
  \/ PlayResolve
  \/ PlayReject
  \/ HandleAudioEnded
  \/ PlaybackTick
  \/ HandleSubmit
  \/ \E i \in DOMAIN uploads : UploadOk(i)
  \/ \E i \in DOMAIN uploads : UploadFail(i)

SpecPipeline == InitPipeline /\ [][NextPipeline]_vars

\* the platforms: every set of the types getSupportedMimeType asks about
Platforms == SUBSET {PossibleTypes[k] : k \in DOMAIN PossibleTypes}

\* the component mounted on any platform and used only to record
InitPlatforms ==
  /\ \E types \in Platforms : ConstructedOn(types)
  /\ ops = MaxPlatformOps

NextPlatforms ==
  \/ EffectRun
  \/ Unmount
  \/ LoadSucceed
  \/ LoadFail
  \/ StartRecording
  \/ \E i \in DOMAIN acq : GrantDevice(i)
  \/ \E i \in DOMAIN acq : DenyDevice(i)
  \/ \E s \in DOMAIN recorders : DataAvailable(s)
  \/ RecordingTick
  \/ StopRecording
  \/ \E s \in DOMAIN recorders, last \in BOOLEAN : OnStop(s, last)
  \/ \E c \in conv : ConvertSucceed(c)
  \/ \E c \in conv : ConvertFail(c)

SpecPlatforms == InitPlatforms /\ [][NextPlatforms]_vars

\* the submit button (lines 576-587) clicked while requests of handleSubmit
\* are still awaited: neither the button nor lines 399-440 look at them
HandleSubmitAgain ==
  /\ Rendered /\ audioUrl # NoUrl /\ ~isConverting /\ audioBlob # NoBlob
  /\ uploads # << >> /\ Len(uploads) <= MaxUploads
  /\ error' = ""
  /\ uploads' = Append(uploads, [blob |-> audioBlob, url |-> audioUrl])
  /\ UNCHANGED << completeCalls, isRecording, isPlaying, recordingTime,
                  playbackTime, audioBlob, audioUrl, isConverting,
                  selectedRecording, recordingsList, recordingFormats,
                  mediaRecorderRef, streamRef, chunksRef, timerRef,
                  playbackTimerRef, ffmpegLoaded, mounted, effectUrl,
                  supported, typesSupported, loadsInFlight, fetchInFlight, acq, nReq,
                  recorders, streams, conv, urlRevoked, leakedTimers, player >>
  /\ ops > 0 /\ ops' = ops - 1

NextResubmit == NextPipeline \/ HandleSubmitAgain

SpecResubmit == InitPipeline /\ [][NextResubmit]_vars

\* the record, convert and submit runs in which the engine settles every
\* conversion it was given and React runs every effect it has scheduled
InitConvert == Constructed /\ ops = MaxConvertOps

FairConvert ==
  /\ WF_vars(EffectRun)
  /\ WF_vars(\E c \in conv : ConvertSucceed(c) \/ ConvertFail(c))

SpecConvert == InitConvert /\ [][NextPipeline]_vars /\ FairConvert

(***************************************************************************)
(* Properties.                                                             *)
(***************************************************************************)
\* a recording attempt is in progress: getUserMedia pending, recording
\* active, or conversion running
RecordingAttemptInProgress == acq # << >> \/ isRecording \/ isConverting

\* the source the component tracks as active in the next state
TrackedSourceNext ==
  IF selectedRecording' # NoRecording
    THEN GetRecordingUrl(recordingFormats', selectedRecording')
    ELSE LocalSrc(audioUrl')

\* C1: while a recording attempt is in progress, a further request to begin
\* a recording changes nothing: no device request, recorder or capture timer
\* is added, and the flags, chunk buffer and local artifact keep their values
C1_SecondStartRefused ==
  [][(StartRecording /\ RecordingAttemptInProgress)
       => UNCHANGED << acq, nReq, recorders, streams, timerRef, leakedTimers,
                       isRecording, isConverting, chunksRef, audioBlob,
                       audioUrl >>]_vars

\* everything startRecording must leave alone when it refuses
RefusedStartFrame ==
  UNCHANGED << isRecording, isPlaying, recordingTime, playbackTime, audioBlob,
               audioUrl, isConverting, selectedRecording, recordingsList,
               recordingFormats, mediaRecorderRef, streamRef, chunksRef,
               timerRef, playbackTimerRef, acq, nReq, recorders, streams,
               conv, urlRevoked, leakedTimers, player, uploads, completeCalls >>

\* C2 as stated: startRecording invoked while the engine is not loaded
\* reports the engine-not-ready error and changes nothing else
C2_EngineNotReadyReported ==
  [][(StartRecordingCall /\ ~ffmpegLoaded)
       => (error' = "notLoaded" /\ RefusedStartFrame)]_vars

\* C2 as amended: startRecording invoked while the engine is not loaded is
\* refused and changes nothing but the error, which is the engine-not-ready
\* error on a platform that supports capture and the unsupported-platform
\* error otherwise
C2_RefusedWhileNotLoaded ==
  [][(StartRecordingCall /\ ~ffmpegLoaded)
       => (/\ error' = IF supported THEN "notLoaded" ELSE "unsupported"
           /\ RefusedStartFrame)]_vars

\* C2 witness: startRecording was refused for the engine
C2_Witness ==
  /\ error = "notLoaded" /\ ~ffmpegLoaded
  /\ acq = << >> /\ nReq = 0 /\ ~isRecording

C4_RequestedSourceAttached ==
  [][(player'.st = "pending" /\ player' # player)
       => (player'.src = player'.req /\ TrackedSourceNext = player'.req)]_vars

\* C5: once the effect has run for the address of a newly converted
\* artifact, every earlier address has been released exactly once; and an
\* address that has been released is never attached to the player
C5_PreviousUrlReleasedOnce ==
  [][/\ (EffectRun /\ audioUrl # NoUrl)
          => \A u \in DOMAIN urlRevoked \ {audioUrl} : urlRevoked'[u] = 1
     /\ (player'.src # player.src /\ player'.src.kind = "local")
          => urlRevoked[player'.src.id] = 0
    ]_vars

\* C6: while the component is mounted, at no time are two addresses of
\* local artifacts unreleased
C6_OneUnreleasedUrl ==
  mounted =>
  Cardinality({u \in DOMAIN urlRevoked : urlRevoked[u] = 0}) <= 1

\* a capture session is active: the recording flag is set or a recorder is
\* capturing
CaptureActive ==
  isRecording \/ \E s \in DOMAIN recorders : recorders[s].st = "recording"

\* playback is active: the playing flag is set or the player is audible
PlaybackActive == isPlaying \/ player.st = "playing"

\* C7: a capture session and playback are never both active
C7_NeverRecordingAndPlaying == ~(CaptureActive /\ PlaybackActive)

\* the Ready state of the pipeline, in the next state
ReadyNext ==
  /\ ~isRecording' /\ ~isConverting'
  /\ audioBlob'.type = "audio/mp4"
  /\ audioUrl' # NoUrl /\ urlRevoked'[audioUrl'] = 0
  /\ error' = ""

\* C8: when the conversion of a capture of one or more chunks succeeds, the
\* pipeline is Ready: not recording, not converting, one audio/mp4 artifact
\* whose address is set and offered for playback and submission
C8_ReadyAfterConversion ==
  [][\A c \in conv :
       (ConvertSucceed(c) /\ mounted /\ c.input.chunks # << >>)
         => ReadyNext]_vars

\* C9: when a conversion fails, the pipeline is Idle with the error
\* reported, and no blob and no address remain offered
C9_IdleAfterFailedConversion ==
  [][\A c \in conv :
       (ConvertFail(c) /\ mounted)
         => (/\ ~isRecording' /\ ~isConverting'
             /\ error' = "convertFailed"
             /\ audioBlob' = NoBlob /\ audioUrl' = NoUrl)]_vars

\* a play request for a library entry that resolves to no address: the
\* handler reads the selection and the local address of its own render
UnresolvedPlayRequest ==
  /\ \E e \in Entries : PlayRecording(e)
  /\ ~isPlaying /\ selectedRecording = NoRecording /\ audioUrl = NoUrl

\* C10: when beginning playback fails (nothing to attach, or play() is
\* rejected) the failure is reported and the slot is left not playing:
\* isPlaying false, elapsed time 0, no timer running, no entry selected
C10_FailedPlaybackLeavesSlotEmpty ==
  [][((PlayReject /\ mounted) \/ UnresolvedPlayRequest)
       => (/\ error' = "playFailed"
           /\ ~isPlaying' /\ playbackTime' = 0
           /\ playbackTimerRef' # "live"
           /\ selectedRecording' = NoRecording)]_vars

\* nothing is playing: the playing flag is down and the player is idle
NothingPlaying == ~isPlaying /\ player.st \in {"idle", "ended"}

\* C11: stopPlayback called when nothing is playing changes nothing:
\* isPlaying, the elapsed playback time, the selected entry, the playback
\* timer, the error and every pipeline variable keep their values
C11_StopPlaybackNoOp ==
  [][(StopPlaybackCall /\ NothingPlaying)
       => UNCHANGED << reactState, mediaRecorderRef, streamRef, chunksRef,
                       timerRef, playbackTimerRef, acq, recorders, streams,
                       conv, urlRevoked, player, uploads, completeCalls >>]_vars

\* the tracked playback state after a stop: not playing, elapsed time 0, no
\* entry selected, timer cancelled and its handle dropped, error untouched
TrackedStoppedNext ==
  /\ ~isPlaying' /\ playbackTime' = 0
  /\ selectedRecording' = NoRecording
  /\ playbackTimerRef' = "null"
  /\ error' = error

\* C12: from a playing state, the end of the media and an explicit
\* stopPlayback leave the same tracked playback state (not playing, elapsed
\* time 0, no entry selected, timer cancelled) and report no error
C12_EndedLikeStop ==
  [][/\ HandleAudioEnded => TrackedStoppedNext
     /\ (StopPlaybackCall /\ player.st = "playing") => TrackedStoppedNext
    ]_vars

\* C12 witness: the source has played to its end and the tracked state is
\* the stopped one
C12_Witness ==
  /\ player.st = "ended" /\ player.src # NoSrc
  /\ ~isPlaying /\ playbackTime = 0 /\ selectedRecording = NoRecording
  /\ playbackTimerRef = "null"

\* C13: when the variant of a library entry is changed while that entry's
\* audio is the one playing, playback is stopped: output halted, isPlaying
\* false, elapsed time 0
C13_FormatChangeStopsPlayback ==
  [][\A e \in Entries, f \in {"mp3", "mp4"} :
       (/\ HandleFormatChange(e, f)
        /\ player.st = "playing"
        /\ player.src.kind = "remote" /\ player.src.id = e)
         => (player'.st # "playing" /\ ~isPlaying' /\ playbackTime' = 0)]_vars

\* the recorder held by mediaRecorderRef is capturing
RecorderCapturing ==
  mediaRecorderRef # 0 /\ recorders[mediaRecorderRef].st = "recording"

\* C14: the capture interval runs only while a recording is in progress,
\* the playback interval runs only while playback is in progress, and no
\* interval runs without a ref holding its handle
C14_TimersFollowOperations ==
  /\ timerRef = "live" => RecorderCapturing
  /\ playbackTimerRef = "live" => player.st = "playing"
  /\ leakedTimers = 0

\* C15: once the component is unmounted no device track is live, no
\* interval runs and no address of a local artifact is unreleased, also
\* when an acquisition or a conversion completes after the teardown
C15_NothingLeftAfterUnmount ==
  ~mounted =>
    /\ \A s \in DOMAIN streams : ~streams[s]
    /\ timerRef # "live" /\ playbackTimerRef # "live" /\ leakedTimers = 0
    /\ \A u \in DOMAIN urlRevoked : urlRevoked[u] # 0

\* C16: a device stream with live tracks is held only for a capture session
\* that is recording or whose stop is being finalised; after a failure
\* that follows the grant (the recorder cannot be constructed or started,
\* or reports an error) the stream is released and the capture timer
\* stopped
C16_StreamReleasedOnFailure ==
  /\ \A s \in DOMAIN streams :
        streams[s] => recorders[s].st \in {"recording", "stopping"}
  /\ (timerRef = "live" /\ mediaRecorderRef # 0)
        => recorders[mediaRecorderRef].st \in {"recording", "stopping"}

\* C17: when the device is denied, or the platform lacks the capture
\* capability, the attempt ends with the error reported and nothing of a
\* capture: the recording flag is false, no recorder was made for the
\* attempt, no capture timer runs and no device stream is live
C17_DeniedEndsIdle ==
  [][(mounted /\ ((\E i \in DOMAIN acq : DenyDevice(i))
                  \/ (StartRecording /\ ~CheckSupport)))
       => /\ error' \in {"startFailed", "unsupported"}
          /\ ~isRecording'
          /\ recorders' = recorders
          /\ timerRef' # "live"
          /\ \A s \in DOMAIN streams' : ~streams'[s]]_vars

\* no capture is in progress: no recorder is held, or the recorder held is
\* not capturing
NoCaptureInProgress ==
  mediaRecorderRef = 0 \/ recorders[mediaRecorderRef].st # "recording"

\* C18: stopRecording invoked when no capture is in progress is a no-op:
\* no recorder is stopped, no conversion is started, and the recording
\* flag, the capture timer, the chunk buffer and the local artifact are
\* unchanged
C18_StopRecordingNoOp ==
  [][(StopRecording /\ NoCaptureInProgress)
       => UNCHANGED << recorders, conv, isRecording, timerRef, chunksRef,
                       audioBlob, audioUrl >>]_vars

\* the chunks recorder s has delivered, in the order of their arrival
Delivered(rs, s) == [k \in 1..rs[s].sent |-> Chunk(s, k)]

\* C19: the raw audio finalised for a capture session is made of exactly
\* the non-empty chunks that session delivered, in the order of their
\* arrival, also when a new recording starts between the stop request and
\* the finalisation
C19_FinalisedChunksOfSession ==
  [][\A s \in DOMAIN recorders, last \in BOOLEAN :
       OnStop(s, last)
         => \A c \in conv' \ conv :
              c.input.chunks = Delivered(recorders', s)]_vars

\* C20: when a start of recording is accepted while a local artifact is
\* ready, the artifact is discarded, so that its address is released by
\* the effect cleanup that follows and the local play and submit section
\* is no longer rendered during the new recording, and playback is stopped
C20_StartDiscardsPreviousArtifact ==
  [][(StartRecording /\ audioUrl # NoUrl /\ acq' # acq)
       => /\ audioUrl' = NoUrl
          /\ ~isPlaying' /\ player'.st # "playing"]_vars

\* C21: at most one conversion on the shared engine, with its fixed
\* input.file and output.m4a, is in flight at any time
C21_OneConversionInFlight == Cardinality(conv) <= 1

\* C22: the engine load is requested at most once unless an earlier load
\* failed: no load is requested while one is in progress or after one
\* succeeded
C22_LoadTriggeredOnce ==
  /\ loadsInFlight <= 1
  /\ ffmpegLoaded => loadsInFlight = 0

\* C23: a failed fetch of the library list leaves the known list as it was
\* and changes neither the recording flag, the converting flag, the local
\* artifact, isPlaying nor the selected entry
C23_FailedFetchChangesNothing ==
  [][FetchFail
       => UNCHANGED << recordingsList, isRecording, isConverting, audioBlob,
                       audioUrl, isPlaying, selectedRecording >>]_vars

\* the list fetch has failed during a recording: no fetch is in flight and
\* no list is known, which only a failed fetch leaves behind while the
\* component is mounted, and the recording goes on
C23_Witness ==
  /\ mounted /\ fetchInFlight = 0 /\ recordingsList = {}
  /\ isRecording /\ RecorderCapturing

\* C24: when an upload fails the error is reported and the local artifact
\* is retained: its blob and address are neither cleared nor released, the
\* library list is not fetched again and no new upload is issued
C24_FailedUploadKeepsArtifact ==
  [][\A i \in DOMAIN uploads :
       UploadFail(i)
         => /\ mounted => error' = "uploadFailed"
            /\ UNCHANGED << audioBlob, audioUrl, urlRevoked, fetchInFlight,
                            recordingsList >>
            /\ Len(uploads') = Len(uploads) - 1]_vars

\* an upload has failed: the error is shown and the artifact is still there
\* with its address unreleased
C24_Witness ==
  /\ mounted /\ error = "uploadFailed" /\ uploads = << >>
  /\ audioBlob # NoBlob /\ audioUrl # NoUrl /\ urlRevoked[audioUrl] = 0

\* C25: onRecordingComplete is called exactly once for each session whose
\* conversion succeeded, with the converted artifact and the address made
\* for it, and never for a failed conversion or with the raw capture: the
\* calls match the addresses created one to one, no session is called for
\* twice, and every call carries an audio/mp4 blob
C25_CallbackOncePerSuccess ==
  /\ Len(completeCalls) = Len(urlRevoked)
  /\ \A i \in DOMAIN completeCalls :
       /\ completeCalls[i].url = i
       /\ completeCalls[i].blob.type = "audio/mp4"
       /\ recorders[completeCalls[i].sess].st = "inactive"
       /\ \A c \in conv : c.sess # completeCalls[i].sess
       /\ \A j \in DOMAIN completeCalls :
            completeCalls[j].sess = completeCalls[i].sess => j = i

\* one session was converted and handed to the callback, and the conversion
\* of a later session has failed
C25_Witness ==
  /\ mounted /\ Len(completeCalls) = 1 /\ error = "convertFailed"
  /\ conv = {} /\ Len(recorders) = 2
  /\ \A s \in DOMAIN recorders : recorders[s].st = "inactive"

\* C26: the recording flag and the converting flag are never both true
C26_NotRecordingAndConverting == ~(isRecording /\ isConverting)

\* C27: the finalisation of a stopped session stops no device stream but
\* that session's own, and the effect cleanup that follows a change of the
\* local artifact does not stop the stream of a recording in progress
C27_OnlyOwnStreamStopped ==
  [][/\ \A s \in DOMAIN recorders, last \in BOOLEAN :
          OnStop(s, last)
            => \A t \in DOMAIN streams \ {s} : streams'[t] = streams[t]
     /\ EffectRun
          => \A t \in DOMAIN streams :
               (streams[t] /\ recorders[t].st = "recording") => streams'[t]
    ]_vars

\* C28: while the component stays mounted, the address of a local artifact
\* is never released while it is the source attached to the player and
\* playing
C28_NoReleaseWhilePlaying ==
  [][\A u \in DOMAIN urlRevoked :
       (mounted' /\ urlRevoked[u] = 0 /\ urlRevoked'[u] # 0)
         => ~(player.st = "playing" /\ player.src = LocalSrc(u))]_vars

\* a request to play is made in this step
PlayRequested == LocalPlayClick \/ \E e \in Entries : PlayRecording(e)

\* C29: a stop of playback is honoured at once and stays honoured: after
\* startRecording's forced stop isPlaying is false and no playback timer
\* runs, and until a new play request is made isPlaying does not become
\* true and no playback timer is started, also when the stop arrived while
\* the promise of an earlier play request was still pending
C29_StopStaysHonoured ==
  [][/\ (StartRecording /\ acq' # acq)
          => (~isPlaying' /\ playbackTimerRef' # "live")
     /\ ~PlayRequested
          => /\ (player.st \in {"idle", "aborting"} /\ ~isPlaying)
                  => ~isPlaying'
             /\ (player.st \in {"idle", "aborting"}
                   /\ playbackTimerRef # "live")
                  => playbackTimerRef' # "live"
    ]_vars

\* the source the component tracks as active
TrackedSource ==
  IF selectedRecording # NoRecording
    THEN GetRecordingUrl(recordingFormats, selectedRecording)
    ELSE LocalSrc(audioUrl)

\* C30: whenever playback is active, the tracked source is the source whose
\* address is attached to the player
C30_TrackedIsAttached ==
  (mounted /\ isPlaying /\ player.st = "playing") => player.src = TrackedSource

\* C31: whenever nothing is playing, the playback elapsed time is 0 and no
\* library entry is tracked as the active source
C31_StoppedMeansReset ==
  (mounted /\ NothingPlaying)
    => (playbackTime = 0 /\ selectedRecording = NoRecording)

\* C32: every conversion leaves the Converting state when the engine
\* settles: the step that ends a conversion, with success or with failure,
\* resets the converting flag, and a converting flag that is set is
\* eventually reset
C32_ConvertingEnds ==
  /\ [][\A c \in conv :
          (mounted /\ (ConvertSucceed(c) \/ ConvertFail(c)))
            => ~isConverting']_vars
  /\ (mounted /\ isConverting) ~> (~mounted \/ ~isConverting)

\* a conversion has failed and the converting flag is reset
C32_Witness ==
  /\ mounted /\ error = "convertFailed" /\ ~isConverting /\ conv = {}
  /\ audioUrl = NoUrl /\ audioBlob = NoBlob

\* C33: a reported error other than an engine error is not a trap: whenever
\* the engine is loaded and no recording, acquisition or conversion is in
\* progress, the record button is enabled, so that a new recording can be
\* requested
C33_ErrorIsNoTrap ==
  (/\ Rendered /\ ffmpegLoaded /\ supported
   /\ ~isRecording /\ ~isConverting /\ acq = << >> /\ conv = {}
   /\ error \in {"startFailed", "convertFailed", "playFailed"})
    => RecordButtonEnabled

\* C34: handleSubmit with no local artifact starts no upload and reports an
\* error; the upload of a local artifact, which is a blob with its playable
\* address, that succeeds removes the blob, releases the address it
\* submitted and clears audioUrl, so that the artifact is no longer offered,
\* and fetches the library list again
C34_SubmitOutcomes ==
  [][/\ (HandleSubmitCall /\ audioBlob = NoBlob)
          => (uploads' = uploads /\ error' = "noAudio")
     /\ \A i \in DOMAIN uploads :
          (mounted /\ UploadOk(i) /\ uploads[i].url # NoUrl)
            => /\ audioBlob' = NoBlob /\ audioUrl' = NoUrl
               /\ urlRevoked'[uploads[i].url] # 0
               /\ fetchInFlight' > 0 /\ fetchInFlight' >= fetchInFlight
    ]_vars

\* an upload has succeeded: the artifact is gone, its address is released,
\* nothing was reported and the list is being fetched again
C34_Witness ==
  /\ mounted /\ audioBlob = NoBlob /\ audioUrl = NoUrl /\ error = ""
  /\ uploads = << >> /\ Len(urlRevoked) = 1 /\ urlRevoked[1] # 0
  /\ Len(completeCalls) = 1 /\ conv = {} /\ fetchInFlight > 0

\* C35: a successful upload discards only the artifact that was submitted:
\* when the local artifact is by then a newer one, its blob and address
\* are not cleared and its address is not released
C35_UploadKeepsNewerArtifact ==
  [][\A i \in DOMAIN uploads :
       (/\ mounted /\ UploadOk(i)
        /\ audioUrl # NoUrl /\ audioUrl # uploads[i].url)
         => /\ UNCHANGED << audioBlob, audioUrl >>
            /\ urlRevoked'[audioUrl] = urlRevoked[audioUrl]]_vars

\* C36: an artifact is uploaded at most once at a time: no two requests
\* in flight carry the same blob
C36_OneUploadPerArtifact ==
  \A i, j \in DOMAIN uploads :
    i # j => uploads[i].blob # uploads[j].blob

\* C37: changing the variant of one entry sets that entry's selection and
\* nothing else: the list and the other entries' selections keep their
\* values, and a player that is playing or starting a source of another
\* entry, or the local recording, is left as it is
C37_FormatChangeFrame ==
  [][\A e \in Entries, f \in {"mp3", "mp4"} :
       HandleFormatChange(e, f)
         => /\ recordingsList' = recordingsList
            /\ recordingFormats'[e] = f
            /\ \A o \in Entries \ {e} :
                 recordingFormats'[o] = recordingFormats[o]
            /\ (/\ player.st \in {"playing", "pending"}
                /\ ~(player.src.kind = "remote" /\ player.src.id = e))
                 => player' = player]_vars

\* the variant of entry e selected by formats, mp3 when none was selected
SelectedVariant(formats, e) ==
  IF formats[e] = "mp4" THEN Library[e].mp4 ELSE Library[e].mp3

\* C38: the address resolved for an entry is that of its selected variant
\* (mp3 when no tag was selected), made reachable from the runtime, and
\* none when that variant is absent; playRecording runs from the list only
\* for an entry whose selected variant has an address; and no entry
\* becomes the playing source, selected and audible, while its selected
\* variant is absent
C38_SelectedVariantResolved ==
  [][\A e \in Entries :
       /\ LET v == SelectedVariant(recordingFormats, e)
              url == GetRecordingUrl(recordingFormats, e)
          IN  IF v.present
                THEN /\ url.kind = "remote" /\ url.id = e
                     /\ url.fmt = SelectedFormat(recordingFormats, e)
                     /\ url.host = Hostname
                ELSE url = NoSrc
       /\ PlayRecording(e) => SelectedVariant(recordingFormats, e).present
       /\ (/\ mounted' /\ player.st # "playing" /\ player'.st = "playing"
           /\ player'.src.kind = "remote" /\ player'.src.id = e
           /\ selectedRecording' = e)
            => SelectedVariant(recordingFormats', e).present]_vars

\* C39: on every platform the recorder is constructed with the first type
\* the platform supports among webm/opus, mp4/aac, webm, mp4 and aac, in
\* that order, and with no type (the platform's default) when it supports
\* none of them; and the raw audio built when the recorder stops carries
\* the type the recorder reports, not the type it was asked for
C39_RawTypeRequestedAndRecorded ==
  [][/\ \A i \in DOMAIN acq :
          GrantDevice(i) =>
            LET r == recorders'[Len(recorders')]
                pref == << "audio/webm;codecs=opus",
                           "audio/mp4;codecs=mp4a.40.2", "audio/webm",
                           "audio/mp4", "audio/aac" >>
                ok == {k \in 1..5 : pref[k] \in typesSupported}
            IN  IF ok = {}
                  THEN r.options = "" /\ r.mimeType = RecorderMimeType("")
                  ELSE \E k \in ok : /\ r.options = pref[k]
                                     /\ \A j \in ok : k <= j
     /\ \A s \in DOMAIN recorders, last \in BOOLEAN :
          (mounted /\ OnStop(s, last))
            => audioBlob'.type = recorders[s].mimeType
    ]_vars

C39_Witness ==
  /\ mounted /\ typesSupported = {"audio/mp4", "audio/aac"}
  /\ isConverting /\ audioBlob.type = "audio/mp4;codecs=mp4a.40.2"
  /\ Len(recorders) = 1 /\ recorders[1].options = "audio/mp4"

====
